---- MODULE Spec2Model ----
(***************************************************************************)
(* A model of boon's JSON Schema compiler (src/compiler.rs): the work      *)
(* queue of Compiler::compile, the keyword lowering of                     *)
(* Compiler::compile_one, and the schema arena and root store they call.   *)
(*                                                                         *)
(* Strings are sequences of tokens.  A location "http://a/s.json#/x/0" is  *)
(* <<"u1", "#", "x", "0">>; a location without fragment is <<"u1">>.  A    *)
(* JSON value is a record with one tag field t and one payload field per   *)
(* JSON type, so that any two values can be compared.                      *)
(***************************************************************************)
EXTENDS Integers, Sequences, FiniteSets, TLC

\* ---------------------------------------------------------------- bounds
\* compile calls per behaviour, and configuration calls (add_resource,
\* register_url_loader, set_default_draft, enable_*) per behaviour
MaxCalls == 2
MaxConfig == 1

\* ------------------------------------------------------------ JSON values
JBool(b) == [t |-> "bool", b |-> b,     n |-> 0, s |-> <<>>, a |-> <<>>, o |-> <<>>]
JNum(n)  == [t |-> "num",  b |-> FALSE, n |-> n, s |-> <<>>, a |-> <<>>, o |-> <<>>]
JStr(s)  == [t |-> "str",  b |-> FALSE, n |-> 0, s |-> s,    a |-> <<>>, o |-> <<>>]
JArr(a)  == [t |-> "arr",  b |-> FALSE, n |-> 0, s |-> <<>>, a |-> a,    o |-> <<>>]
\* an object is the sequence of its members in key order (serde_json's Map)
JObj(o)  == [t |-> "obj",  b |-> FALSE, n |-> 0, s |-> <<>>, a |-> <<>>, o |-> o]
M(k, v)  == [k |-> k, v |-> v]

\* a name, as a one-token string
Name(s) == JStr(<<s>>)

\* obj.contains_key(pname), obj.get(pname) on a member sequence
contains_key(o, pname) == \E i \in 1..Len(o) : o[i].k = pname
get(o, pname) == o[CHOOSE i \in 1..Len(o) : o[i].k = pname].v
IsA(o, pname, tag) == contains_key(o, pname) /\ get(o, pname).t = tag

\* ------------------------------------------------------------------ util
\* util::escape: '~' becomes "~0" and '/' becomes "~1" in a pointer token
escape(k) ==
    CASE k = "a/b" -> "a~1b"
      [] k = "m~n" -> "m~0n"
      [] OTHER -> k

\* the unescape of Root::lookup_ptr: "~1" becomes '/', "~0" becomes '~'
unescape(tok) ==
    CASE tok = "a~1b" -> "a/b"
      [] tok = "m~0n" -> "m~n"
      [] OTHER -> tok

\* the decimal rendering of an array index, and its parse
IdxTok(i) == CASE i = 0 -> "0" [] i = 1 -> "1" [] i = 2 -> "2" [] OTHER -> "3"
IsIdxTok(tok) == tok \in {"0", "1", "2", "3"}
TokIdx(tok) == CASE tok = "0" -> 0 [] tok = "1" -> 1 [] tok = "2" -> 2 [] OTHER -> 3

\* loc.rfind('#'): the position of the fragment separator, 0 when there is none
HashPos(loc) ==
    IF \E i \in 1..Len(loc) : loc[i] = "#"
    THEN CHOOSE i \in 1..Len(loc) : loc[i] = "#" /\ \A j \in (i+1)..Len(loc) : loc[j] # "#"
    ELSE 0

\* util::split: (url, fragment) of a location
split(loc) ==
    IF HashPos(loc) = 0
    THEN [url |-> loc, ptr |-> <<>>]
    ELSE [url |-> SubSeq(loc, 1, HashPos(loc) - 1),
          ptr |-> SubSeq(loc, HashPos(loc) + 1, Len(loc))]

\* a location kept as it was given
AsGiven(loc) == loc

\* compile's and Schemas::enqueue's canonicalisation: append '#' when missing
Canon(loc) == IF HashPos(loc) = 0 THEN Append(loc, "#") ELSE loc

IsPrefix(p, q) == Len(p) <= Len(q) /\ SubSeq(q, 1, Len(p)) = p

\* ------------------------------------------------------------- the world
\* The documents a URL loader can fetch, by URL.  "ua": a self-reference;
\* "ub": a mutual cycle behind definitions (draft 7); "uc" and "ud": a cycle
\* across two documents; "ue": a reference to a pointer that does not exist;
\* "uf": an invalid patternProperties regex in the embedded resource "um"
\* below the root; "ug": an embedded
\* resource with an anchor and a dynamic anchor; "ui": an unknown $schema;
\* "uj": draft-4 bounds with boolean exclusive keywords and an unknown format;
\* "uk": numeric exclusiveMaximum, formats, and then/else without if, of the
\* default draft; "ul": a
\* draft-7 document with a boolean exclusiveMaximum, which the draft-7
\* meta-schema rejects.
DocA == JObj(<<M("$ref", JStr(<<"#">>))>>)

DocB ==
    JObj(<<M("$schema", Name("draft7")),
           M("definitions", JObj(<<
               M("a", JObj(<<M("$ref", JStr(<<"#", "definitions", "b">>)),
                             M("not", JBool(TRUE))>>)),
               M("b", JObj(<<M("$ref", JStr(<<"#", "definitions", "a">>))>>))>>)),
           M("not", JObj(<<M("$ref", JStr(<<"#", "definitions", "a">>))>>)),
           M("properties", JObj(<<M("a/b", JBool(TRUE))>>))>>)

DocC ==
    JObj(<<M("allOf", JArr(<<JObj(<<M("$ref", JStr(<<"ud", "#">>))>>),
                            JObj(<<M("type", Name("string"))>>)>>))>>)

DocD ==
    JObj(<<M("anyOf", JArr(<<JObj(<<M("$ref", JStr(<<"uc">>))>>)>>)),
           M("items", JObj(<<M("$ref", JStr(<<"uc", "#", "allOf", "1">>))>>))>>)

DocE ==
    JObj(<<M("allOf", JArr(<<JObj(<<M("type", Name("string"))>>),
                            JObj(<<M("$ref", JStr(<<"#", "nowhere">>))>>)>>))>>)

DocF ==
    JObj(<<M("if", JBool(TRUE)),
           M("not", JObj(<<M("$id", JStr(<<"um">>)),
                           M("not", JBool(TRUE)),
                           M("patternProperties", JObj(<<M("(", JBool(TRUE))>>))>>)),
           M("then", JBool(TRUE))>>)

DocG ==
    JObj(<<M("$ref", JStr(<<"uh", "#", "anc">>)),
           M("properties", JObj(<<
               M("p", JObj(<<M("$anchor", Name("anc")),
                             M("$dynamicAnchor", Name("dyn")),
                             M("$id", JStr(<<"uh">>)),
                             M("not", JObj(<<M("$dynamicRef", JStr(<<"#", "dyn">>))>>))>>))>>))>>)

DocI == JObj(<<M("$schema", Name("nodraft")), M("not", JBool(FALSE))>>)

DocJ ==
    JObj(<<M("$schema", Name("draft4")),
           M("exclusiveMaximum", JBool(TRUE)),
           M("exclusiveMinimum", JBool(FALSE)),
           M("format", Name("nope")),
           M("maximum", JNum(5)),
           M("minimum", JNum(1)),
           M("not", JObj(<<M("format", Name("custom"))>>))>>)

DocK ==
    JObj(<<M("else", JBool(FALSE)),
           M("exclusiveMaximum", JNum(3)),
           M("format", Name("nope")),
           M("maximum", JNum(5)),
           M("not", JObj(<<M("format", Name("date"))>>)),
           M("then", JBool(TRUE))>>)

DocL ==
    JObj(<<M("$schema", Name("draft7")),
           M("exclusiveMaximum", JBool(TRUE)),
           M("maximum", JNum(5))>>)

WorldUrls == {"ua", "ub", "uc", "ud", "ue", "uf", "ug", "ui", "uj", "uk", "ul"}
World(u) ==
    CASE u = "ua" -> DocA [] u = "ub" -> DocB [] u = "uc" -> DocC [] u = "ud" -> DocD
      [] u = "ue" -> DocE [] u = "uf" -> DocF [] u = "ug" -> DocG [] u = "uj" -> DocJ
      [] u = "uk" -> DocK [] u = "ul" -> DocL [] OTHER -> DocI

\* Url::parse accepts absolute URLs only: "uz" is absolute but nothing is
\* served there, "rel" is a relative reference
AbsUrls == WorldUrls \cup {"uh", "um", "uz"}
UrlParses(url) == Len(url) = 1 /\ url[1] \in AbsUrls

\* fragments that are plain names (anchors), not JSON pointers
AnchorNames == {"anc", "dyn"}
IsJsonPointer(ptr) == \A i \in 1..Len(ptr) : ptr[i] \notin AnchorNames

\* ------------------------------------------------------------ root store
\* A root is [url, json, draft]: a loaded document and the version of its draft.

\* the draft a $schema value names, 0 when it names none
DraftOfSchema(tok) ==
    CASE tok = "draft4" -> 4 [] tok = "draft6" -> 6 [] tok = "draft7" -> 7
      [] tok = "draft2019" -> 2019 [] tok = "draft2020" -> 2020 [] OTHER -> 0

\* the vocabularies a draft's meta-schema declares
DefaultVocabs(version) ==
    IF version = 2019
    THEN {"core", "applicator", "validation", "meta-data", "format", "content"}
    ELSE {"core", "applicator", "unevaluated", "validation", "meta-data",
          "format-annotation", "content"}

\* Root::has_vocab
has_vocab(root, name) ==
    root.draft < 2019 \/ name = "core" \/ name \in DefaultVocabs(root.draft)

\* every value of a document with its pointer
RECURSIVE Nodes(_, _)
Nodes(v, ptr) ==
    {[ptr |-> ptr, v |-> v]} \cup
    (IF v.t = "obj"
     THEN UNION {Nodes(v.o[i].v, Append(ptr, escape(v.o[i].k))) : i \in 1..Len(v.o)}
     ELSE IF v.t = "arr"
     THEN UNION {Nodes(v.a[i], Append(ptr, IdxTok(i - 1))) : i \in 1..Len(v.a)}
     ELSE {})

IdKey(version) == IF version = 4 THEN "id" ELSE "$id"

\* the resources of a document: its root, and every object with an $id
Resources(root) ==
    {[ptr |-> <<>>, id |-> root.url]} \cup
    {[ptr |-> n.ptr, id |-> get(n.v.o, IdKey(root.draft)).s[1]] :
        n \in {m \in Nodes(root.json, <<>>) :
                 /\ m.ptr # <<>>
                 /\ m.v.t = "obj"
                 /\ IsA(m.v.o, IdKey(root.draft), "str")}}

\* of the resources rs, the one with the longest pointer that is a prefix of ptr
Innermost(rs, ptr) ==
    CHOOSE r \in rs :
        /\ IsPrefix(r.ptr, ptr)
        /\ \A q \in rs : IsPrefix(q.ptr, ptr) => Len(q.ptr) <= Len(r.ptr)

\* the resource enclosing a pointer
ResourceOf(root, ptr) == Innermost(Resources(root), ptr)

\* Root::base_url
base_url(root, ptr) == ResourceOf(root, ptr).id

\* Root::resource: the resource rooted exactly at ptr, if any
resource(root, ptr) == {r \in Resources(root) : r.ptr = ptr}

\* the values of a document that declare `key` as a string, inside resource res
Declaring(root, res, key) ==
    {m \in Nodes(root.json, <<>>) :
        /\ m.v.t = "obj"
        /\ IsA(m.v.o, key, "str")
        /\ ResourceOf(root, m.ptr) = res}

\* the anchors of a resource, each with the pointer of the value declaring
\* it; a $dynamicAnchor (draft 2020-12) is an anchor too
anchors(root, res) ==
    {[name |-> get(m.v.o, "$anchor").s[1], ptr |-> m.ptr] :
        m \in Declaring(root, res, "$anchor")}
    \cup
    {[name |-> get(m.v.o, "$dynamicAnchor").s[1], ptr |-> m.ptr] :
        m \in IF root.draft >= 2020 THEN Declaring(root, res, "$dynamicAnchor") ELSE {}}

dynamic_anchors(root, res) ==
    {get(m.v.o, "$dynamicAnchor").s[1] :
        m \in IF root.draft >= 2020 THEN Declaring(root, res, "$dynamicAnchor") ELSE {}}

\* resolve, once the anchors named by the fragment are known
ResolveAnchor(root, loc, hit) ==
    IF hit = {} THEN [ok |-> FALSE, loc |-> loc]
    ELSE [ok |-> TRUE, loc |-> <<root.url, "#">> \o (CHOOSE a \in hit : TRUE).ptr]

\* resolve, once the resource the URL names is known
ResolveRes(root, loc, frag, res) ==
    IF IsJsonPointer(frag)
    THEN [ok |-> TRUE, loc |-> <<root.url, "#">> \o res.ptr \o frag]
    ELSE ResolveAnchor(root, loc, {a \in anchors(root, res) : frag = <<a.name>>})

ResolveIn(root, loc, frag, own) ==
    IF own = {} THEN [ok |-> TRUE, loc |-> loc]
    ELSE ResolveRes(root, loc, frag, CHOOSE r \in own : TRUE)

\* Root::resolve: a location inside this document is rewritten to
\* <document url>#<pointer>, an anchor to the pointer of its declaration; a
\* location of another document is left alone
resolve(root, loc) ==
    ResolveIn(root, loc, split(loc).ptr,
              {r \in Resources(root) : split(loc).url = <<r.id>>})

NotFound == [found |-> FALSE, v |-> JBool(FALSE)]

\* RFC 6901 dereference of a well-formed pointer, token by token
RECURSIVE Deref(_, _)
Deref(v, ptr) ==
    IF ptr = <<>> THEN [found |-> TRUE, v |-> v]
    ELSE IF v.t = "obj" /\ contains_key(v.o, unescape(Head(ptr)))
    THEN Deref(get(v.o, unescape(Head(ptr))), Tail(ptr))
    ELSE IF v.t = "arr" /\ IsIdxTok(Head(ptr)) /\ TokIdx(Head(ptr)) < Len(v.a)
    THEN Deref(v.a[TokIdx(Head(ptr)) + 1], Tail(ptr))
    ELSE NotFound

\* Root::lookup_ptr: Err on a fragment that is no JSON pointer, else the value
\* the pointer leads to, if any
lookup_ptr(root, ptr) ==
    IF IsJsonPointer(ptr) THEN [ok |-> TRUE] @@ Deref(root.json, ptr)
    ELSE [ok |-> FALSE] @@ NotFound

\* ---------------------------------------------------------- schema arena
\* The arena is [list, map]: the records in handle order (handle h is
\* list[h + 1]) and the handle of every inserted location.  The work queue
\* is a local of compile that enqueue receives beside the arena.

\* the first position of loc in the queue, 0 when it is not queued
Position(queue, loc) ==
    IF \E i \in 1..Len(queue) : queue[i] = loc
    THEN CHOOSE i \in 1..Len(queue) :
            queue[i] = loc /\ \A j \in 1..(i - 1) : queue[j] # loc
    ELSE 0

\* enqueue of a location that has its '#'
EnqueueCanon(schemas, queue, loc) ==
    IF loc \in DOMAIN schemas.map
    THEN [h |-> schemas.map[loc], q |-> queue]
    ELSE IF Position(queue, loc) # 0
    THEN [h |-> Len(schemas.list) + Position(queue, loc) - 1, q |-> queue]
    ELSE [h |-> Len(schemas.list) + Len(queue), q |-> Append(queue, loc)]

\* Schemas::enqueue.  compile_one holds the arena by shared reference, so
\* reserving a handle writes nothing to it: the handle of a queued location
\* is the slot its record will be appended at, Len(list) + its queue position.
Schemas_enqueue(schemas, queue, loc) == EnqueueCanon(schemas, queue, Canon(loc))

\* Schemas::insert: the record goes to the end of the list and the location
\* is registered under that position
Schemas_insert(schemas, loc, sch) ==
    [list |-> Append(schemas.list, sch),
     map |-> [l \in DOMAIN schemas.map \cup {loc} |->
                 IF l = loc THEN Len(schemas.list) ELSE schemas.map[l]]]

EmptySchemas == [list |-> <<>>, map |-> [l \in {} |-> 0]]

\* the handle e.h before the handles of the rest, and the queue of the rest
Cons(e, r) == [hs |-> <<e.h>> \o r.hs, q |-> r.q]

\* enqueue applied to a sequence of locations in order: the handles returned
\* and the queue afterwards
RECURSIVE EnqueueAll(_, _, _)
EnqueueRest(schemas, e, locs) == Cons(e, EnqueueAll(schemas, e.q, locs))
EnqueueAll(schemas, queue, locs) ==
    IF locs = <<>> THEN [hs |-> <<>>, q |-> queue]
    ELSE EnqueueRest(schemas, Schemas_enqueue(schemas, queue, Head(locs)), Tail(locs))

\* --------------------------------------------------------- schema record
\* An Option is a sequence of at most one element; a map is the sequence of
\* its [k, h] entries in key order.
UsizeKeywords ==
    {"maxLength", "minLength", "maxItems", "minItems", "maxProperties",
     "minProperties", "maxContains", "minContains"}

\* Schema::new(loc)
Schema_new(loc) ==
    [index |-> 0, location |-> loc, resource |-> 0, draft_version |-> 0,
     boolean |-> <<>>,
     ref_ |-> <<>>, recursive_ref |-> <<>>, recursive_anchor |-> FALSE,
     dynamic_ref |-> <<>>, dynamic_anchor |-> <<>>, dynamic_anchors |-> <<>>,
     all_of |-> <<>>, any_of |-> <<>>, one_of |-> <<>>, not |-> <<>>,
     items_kind |-> "none", items |-> <<>>,
     additional_items_bool |-> <<>>, additional_items |-> <<>>,
     properties |-> <<>>, pattern_properties |-> <<>>,
     additional_properties_bool |-> <<>>, additional_properties |-> <<>>,
     dependencies |-> <<>>, dependencies_props |-> <<>>,
     contains |-> <<>>, property_names |-> <<>>,
     if_ |-> <<>>, then |-> <<>>, else_ |-> <<>>,
     dependent_schemas |-> <<>>, dependent_required |-> <<>>,
     unevaluated_items |-> <<>>, unevaluated_properties |-> <<>>,
     prefix_items |-> <<>>, items2020 |-> <<>>,
     types |-> {}, enum_ |-> <<>>, constant |-> <<>>,
     multiple_of |-> <<>>,
     maximum |-> <<>>, exclusive_maximum |-> <<>>,
     minimum |-> <<>>, exclusive_minimum |-> <<>>,
     usizes |-> [k \in UsizeKeywords |-> <<>>],
     pattern |-> <<>>, unique_items |-> FALSE, required |-> <<>>,
     format |-> <<>>, content_encoding |-> <<>>, content_media_type |-> <<>>]

Handles(m) == [i \in 1..Len(m) |-> m[i].h]

\* every handle a record stores, its own index excepted
Rng(q) == {q[i] : i \in 1..Len(q)}

StoredHandles(s) ==
        {s.resource} \cup Rng(s.ref_) \cup Rng(s.recursive_ref) \cup Rng(s.dynamic_ref)
        \cup Rng(Handles(s.dynamic_anchors))
        \cup Rng(s.all_of) \cup Rng(s.any_of) \cup Rng(s.one_of) \cup Rng(s.not)
        \cup Rng(s.items) \cup Rng(s.additional_items)
        \cup Rng(Handles(s.properties)) \cup Rng(Handles(s.pattern_properties))
        \cup Rng(s.additional_properties) \cup Rng(Handles(s.dependencies))
        \cup Rng(s.contains) \cup Rng(s.property_names)
        \cup Rng(s.if_) \cup Rng(s.then) \cup Rng(s.else_)
        \cup Rng(Handles(s.dependent_schemas))
        \cup Rng(s.unevaluated_items) \cup Rng(s.unevaluated_properties)
        \cup Rng(s.prefix_items) \cup Rng(s.items2020)

\* ------------------------------------------------------- keyword lowering
\* compile_one runs on a context cx = [schemas, root, loc, obj, assert_format,
\* assert_content, formats, decoders, media_types] and threads c = [s, q, err,
\* done] through its statements: the record so far, the work queue, the error
\* of a `?` that fired (at most one) and whether a `return Ok(s)` was taken.
Err(kind, loc, arg) == <<[kind |-> kind, loc |-> loc, arg |-> arg]>>

\* strings regex::Regex::new rejects
InvalidRegexes == {"(", "["}

\* references Url::join cannot parse
UnparsableRefs == {"::"}

\* crate::formats::FORMATS, crate::content::DECODERS and MEDIA_TYPES
FORMATS == {"date", "date-time", "time", "duration", "email", "hostname", "ipv4",
            "ipv6", "uri", "uri-reference", "uri-template", "json-pointer",
            "relative-json-pointer", "regex", "uuid"}
DECODERS == {"base64"}
MEDIA_TYPES == {"application/json"}

\* Type::from_str
TypeNames == {"null", "boolean", "number", "integer", "string", "array", "object"}

\* the closures of compile_one (lines 190-273)
load_usize(cx, pname) ==
    IF IsA(cx.obj, pname, "num") /\ get(cx.obj, pname).n >= 0
    THEN <<get(cx.obj, pname).n>> ELSE <<>>

load_num(cx, pname) ==
    IF IsA(cx.obj, pname, "num") THEN <<get(cx.obj, pname).n>> ELSE <<>>

Strings(strs) == [i \in 1..Len(strs) |-> strs[i].s]
to_strings(v) ==
    IF v.t = "arr" THEN Strings(SelectSeq(v.a, LAMBDA e : e.t = "str")) ELSE <<>>

enqueue(cx, queue, path) == Schemas_enqueue(cx.schemas, queue, cx.loc \o path)

\* lines 227-233 with the location put at the front of the queue
PropAtFront(cx, queue, pname) ==
    IF contains_key(cx.obj, pname)
    THEN [hs |-> <<Len(cx.schemas.list)>>,
          q |-> <<Append(cx.loc, escape(pname))>> \o queue]
    ELSE [hs |-> <<>>, q |-> queue]

enqueue_prop(cx, queue, pname) ==
    IF contains_key(cx.obj, pname)
    THEN EnqueueAll(cx.schemas, queue, <<Append(cx.loc, escape(pname))>>)
    ELSE [hs |-> <<>>, q |-> queue]

\* lines 234-242 with queue.push_back for schemas.enqueue: every element is
\* queued, whether or not its location is compiled or queued already
PushArr(cx, queue, pname) ==
    IF IsA(cx.obj, pname, "arr")
    THEN [hs |-> [i \in 1..Len(get(cx.obj, pname).a) |->
                     Len(cx.schemas.list) + Len(queue) + i - 1],
          q |-> queue \o [i \in 1..Len(get(cx.obj, pname).a) |->
                             cx.loc \o <<pname, IdxTok(i - 1)>>]]
    ELSE [hs |-> <<>>, q |-> queue]

enquue_arr(cx, queue, pname) ==
    IF IsA(cx.obj, pname, "arr")
    THEN EnqueueAll(cx.schemas, queue,
                    [i \in 1..Len(get(cx.obj, pname).a) |->
                        cx.loc \o <<pname, IdxTok(i - 1)>>])
    ELSE [hs |-> <<>>, q |-> queue]

\* the members of the object under pname, none when it is no object
Members(obj, pname) == IF IsA(obj, pname, "obj") THEN get(obj, pname).o ELSE <<>>

\* the handles hs as a map under the keys of the members o
Keyed(o, r) == [m |-> [i \in 1..Len(o) |-> [k |-> o[i].k, h |-> r.hs[i]]], q |-> r.q]

\* the locations <loc>/<pname>/<key> of the members o
MemberLocs(cx, pname, o) == [i \in 1..Len(o) |-> cx.loc \o <<pname, escape(o[i].k)>>]

enqueue_map(cx, queue, pname) ==
    Keyed(Members(cx.obj, pname),
          EnqueueAll(cx.schemas, queue,
                     MemberLocs(cx, pname, Members(cx.obj, pname))))

\* Url::join of a reference onto a base URL
Join(base, ref) ==
    IF ref = <<>> THEN [ok |-> TRUE, url |-> <<base>>]
    ELSE IF ref[1] \in UnparsableRefs THEN [ok |-> FALSE, url |-> ref]
    ELSE IF ref[1] = "#" THEN [ok |-> TRUE, url |-> <<base>> \o ref]
    ELSE [ok |-> TRUE, url |-> ref]

NoErr(r) == [err |-> <<>>, hs |-> r.hs, q |-> r.q]

\* lines 268-269 with the resolved location pushed on the queue unless it is
\* compiled: a location that is already queued is queued again
RefPushed(cx, queue, abs_ref, resolved_ref) ==
    IF ~resolved_ref.ok
    THEN [err |-> Err("AnchorNotFound", abs_ref, ""), hs |-> <<>>, q |-> queue]
    ELSE IF resolved_ref.loc \in DOMAIN cx.schemas.map
    THEN [err |-> <<>>, hs |-> <<cx.schemas.map[resolved_ref.loc]>>, q |-> queue]
    ELSE [err |-> <<>>, hs |-> <<Len(cx.schemas.list) + Len(queue)>>,
          q |-> Append(queue, resolved_ref.loc)]

\* enqueue_ref from root.resolve on (lines 268-269)
RefResolved(cx, queue, abs_ref, resolved_ref) ==
    IF ~resolved_ref.ok
    THEN [err |-> Err("AnchorNotFound", abs_ref, ""), hs |-> <<>>, q |-> queue]
    ELSE NoErr(EnqueueAll(cx.schemas, queue, <<resolved_ref.loc>>))

\* enqueue_ref from the join on (lines 261-269)
RefJoined(cx, queue, ref, abs_ref) ==
    IF ~abs_ref.ok
    THEN [err |-> Err("ParseUrlError", ref, ""), hs |-> <<>>, q |-> queue]
    ELSE RefResolved(cx, queue, abs_ref.url, resolve(cx.root, abs_ref.url))

enqueue_ref(cx, queue, pname) ==
    IF IsA(cx.obj, pname, "str")
    THEN RefJoined(cx, queue, get(cx.obj, pname).s,
                   Join(base_url(cx.root, split(cx.loc).ptr), get(cx.obj, pname).s))
    ELSE [err |-> <<>>, hs |-> <<>>, q |-> queue]

\* ---- the statements of compile_one, as steps on c
\* no `return` and no `?` has been taken yet
Live(c) == ~c.done /\ c.err = <<>>

\* s.<field> = <the handles of r>, with the queue r leaves
Put(c, field, r) == [c EXCEPT !.q = r.q, !.s[field] = r.hs]
PutMap(c, field, r) == [c EXCEPT !.q = r.q, !.s[field] = r.m]
PutRef(c, field, r) == IF r.err # <<>> THEN [c EXCEPT !.err = r.err] ELSE Put(c, field, r)

\* `if on { s.<field> = <closure>(<pname>, queue) }`
Arr(cx, c, on, field, pname) ==
    IF Live(c) /\ on THEN Put(c, field, enquue_arr(cx, c.q, pname)) ELSE c
Prop(cx, c, on, field, pname) ==
    IF Live(c) /\ on THEN Put(c, field, enqueue_prop(cx, c.q, pname)) ELSE c
Map(cx, c, on, field, pname) ==
    IF Live(c) /\ on THEN PutMap(c, field, enqueue_map(cx, c.q, pname)) ELSE c
Ref(cx, c, on, field, pname) ==
    IF Live(c) /\ on THEN PutRef(c, field, enqueue_ref(cx, c.q, pname)) ELSE c

\* `if on { s.<field> = val }`, `if on { return Err(err) }`, `if on { return Ok(s) }`
Set(c, on, field, val) == IF Live(c) /\ on THEN [c EXCEPT !.s[field] = val] ELSE c
Fail(c, on, err) == IF Live(c) /\ on THEN [c EXCEPT !.err = err] ELSE c
Finish(c, on) == IF Live(c) /\ on THEN [c EXCEPT !.done = TRUE] ELSE c

\* ---- lines 155-187: identity, resource linkage, dynamic anchors, value shape
PutHandle(c, field, e) == [c EXCEPT !.q = e.q, !.s[field] = e.h]

\* lines 155-156
NewRecord(cx, queue) ==
    [s |-> [Schema_new(cx.loc) EXCEPT !.draft_version = cx.root.draft],
     q |-> queue, err |-> <<>>, done |-> FALSE]

\* lines 158-159: the location is in the queue already, this reads its handle
OwnIndex(cx, c) == PutHandle(c, "index", Schemas_enqueue(cx.schemas, c.q, cx.loc))

\* lines 160-165
ResourceAt(cx, c, base_loc) ==
    IF ~base_loc.ok THEN Fail(c, TRUE, Err("AnchorNotFound", base_loc.loc, ""))
    ELSE PutHandle(c, "resource", Schemas_enqueue(cx.schemas, c.q, base_loc.loc))

OwnResource(cx, c) ==
    ResourceAt(cx, c, resolve(cx.root, <<base_url(cx.root, split(cx.loc).ptr)>>))

\* a set as a sequence, in some fixed order
RECURSIVE SeqOf(_)
SeqFrom(x, S) == <<x>> \o SeqOf(S \ {x})
SeqOf(S) == IF S = {} THEN <<>> ELSE SeqFrom(CHOOSE x \in S : TRUE, S)

AnchorPtr(root, res, name) == (CHOOSE a \in anchors(root, res) : a.name = name).ptr

Named(names, r) ==
    [m |-> [i \in 1..Len(names) |-> [k |-> names[i], h |-> r.hs[i]]], q |-> r.q]

\* lines 171-175
AnchorsNamed(cx, c, res, names) ==
    PutMap(c, "dynamic_anchors",
           Named(names,
                 EnqueueAll(cx.schemas, c.q,
                            [i \in 1..Len(names) |->
                                split(cx.loc).url \o <<"#">>
                                    \o AnchorPtr(cx.root, res, names[i])])))

\* lines 167-177
DynamicAnchors(cx, c) ==
    IF /\ Live(c)
       /\ c.s.index = c.s.resource
       /\ cx.root.draft >= 2020
       /\ resource(cx.root, split(cx.loc).ptr) # {}
    THEN AnchorsNamed(cx, c, CHOOSE r \in resource(cx.root, split(cx.loc).ptr) : TRUE,
                      SeqOf(dynamic_anchors(
                                cx.root,
                                CHOOSE r \in resource(cx.root, split(cx.loc).ptr) : TRUE)))
    ELSE c

\* lines 179-187
Shape(c, v) ==
    IF ~Live(c) \/ v.t = "obj" THEN c
    ELSE IF v.t = "bool" THEN [c EXCEPT !.s.boolean = <<v.b>>, !.done = TRUE]
    ELSE [c EXCEPT !.done = TRUE]

LowerHead(cx, v, queue) ==
    Shape(DynamicAnchors(cx, OwnResource(cx, OwnIndex(cx, NewRecord(cx, queue)))), v)

\* lowering that goes on to the siblings of $ref
NoCollapse(cx, c) == c

\* ---- lines 275-282: $ref, and the pre-2019 rule that $ref hides its siblings
RefCollapse(cx, c) ==
    Finish(c, has_vocab(cx.root, "core") /\ c.s.ref_ # <<>> /\ cx.root.draft < 2019)

LowerCore(cx, c) ==
    IF ~Live(c) THEN c ELSE
    RefCollapse(cx, Ref(cx, c, has_vocab(cx.root, "core"), "ref_", "$ref"))

\* ---- lines 284-345: the applicator keywords of every draft
App(cx) == has_vocab(cx.root, "applicator")
IsTuple(cx) == cx.root.draft < 2020 /\ IsA(cx.obj, "items", "arr")
IsBool(cx, pname) == IsA(cx.obj, pname, "bool")
BoolOf(cx, pname) == <<get(cx.obj, pname).b>>

\* lines 285-288
Combinators(cx, c) ==
    IF ~Live(c) THEN c ELSE
    Prop(cx,
    Arr(cx,
    Arr(cx,
    Arr(cx, c, App(cx), "all_of", "allOf"),
        App(cx), "any_of", "anyOf"),
        App(cx), "one_of", "oneOf"),
        App(cx), "not", "not")

\* lines 290-304
ItemsPre2020(cx, c) ==
    IF ~Live(c) THEN c ELSE
    Set(
    Prop(cx,
    Prop(cx,
    Set(
    Set(
    Arr(cx, c, App(cx) /\ IsTuple(cx), "items", "items"),
        App(cx) /\ IsTuple(cx), "items_kind", "refs"),
        App(cx) /\ IsTuple(cx) /\ IsBool(cx, "additionalItems"),
        "additional_items_bool", BoolOf(cx, "additionalItems")),
        App(cx) /\ IsTuple(cx) /\ ~IsBool(cx, "additionalItems"),
        "additional_items", "additionalItems"),
        App(cx) /\ cx.root.draft < 2020 /\ ~IsTuple(cx), "items", "items"),
        App(cx) /\ cx.root.draft < 2020 /\ ~IsTuple(cx) /\ contains_key(cx.obj, "items"),
        "items_kind", "ref")

\* patternProperties keys taken as valid regexes, all of them
NoBadPatterns(cx) == <<>>

\* the first patternProperties key, in key order, that is no regex
BadPatterns(cx) ==
    SelectSeq(Members(cx.obj, "patternProperties"), LAMBDA m : m.k \in InvalidRegexes)

\* lines 306-328
Properties(cx, c) ==
    IF ~Live(c) THEN c ELSE
    Prop(cx,
    Set(
    Map(cx,
    Fail(
    Map(cx, c, App(cx), "properties", "properties"),
        App(cx) /\ BadPatterns(cx) # <<>>,
        Err("InvalidRegex", Append(cx.loc, "patternProperties"), BadPatterns(cx)[1].k)),
        App(cx), "pattern_properties", "patternProperties"),
        App(cx) /\ IsBool(cx, "additionalProperties"),
        "additional_properties_bool", BoolOf(cx, "additionalProperties")),
        App(cx) /\ ~IsBool(cx, "additionalProperties"),
        "additional_properties", "additionalProperties")

DepSchemas(cx) == SelectSeq(Members(cx.obj, "dependencies"), LAMBDA m : m.v.t # "arr")
DepProps(cx) == SelectSeq(Members(cx.obj, "dependencies"), LAMBDA m : m.v.t = "arr")
PropsOf(o) == [i \in 1..Len(o) |-> [k |-> o[i].k, props |-> to_strings(o[i].v)]]

\* lines 330-344
Dependencies(cx, c) ==
    IF ~Live(c) THEN c ELSE
    IF Live(c) /\ App(cx)
    THEN Set(PutMap(c, "dependencies",
                    Keyed(DepSchemas(cx),
                          EnqueueAll(cx.schemas, c.q,
                                     MemberLocs(cx, "dependencies", DepSchemas(cx))))),
             TRUE, "dependencies_props", PropsOf(DepProps(cx)))
    ELSE c

LowerApplicator(cx, c) == Dependencies(cx, Properties(cx, ItemsPre2020(cx, Combinators(cx, c))))

\* ---- lines 347-407: the validation keywords
Val(cx) == has_vocab(cx.root, "validation")

\* lines 348-362
TypesOf(cx) ==
    IF IsA(cx.obj, "type", "str") THEN {get(cx.obj, "type").s[1]} \cap TypeNames
    ELSE IF IsA(cx.obj, "type", "arr")
    THEN {x[1] : x \in Rng(to_strings(get(cx.obj, "type")))} \cap TypeNames
    ELSE {}

\* a boolean exclusiveMaximum/exclusiveMinimum equal to true
Moves(cx, pname) == IsBool(cx, pname) /\ get(cx.obj, pname).b

\* an inclusive slot that keeps its bound whatever the exclusive keyword says
InclusiveKept(cx, bound, exclusive) == load_num(cx, bound)

\* lines 370-386: the inclusive and the exclusive slot of one bound
Inclusive(cx, bound, exclusive) ==
    IF Moves(cx, exclusive) THEN <<>> ELSE load_num(cx, bound)
Exclusive(cx, bound, exclusive) ==
    IF IsBool(cx, exclusive)
    THEN (IF Moves(cx, exclusive) THEN load_num(cx, bound) ELSE <<>>)
    ELSE load_num(cx, exclusive)

\* lines 364-386
Numbers(cx, c) ==
    IF ~Live(c) THEN c ELSE
    Set(
    Set(
    Set(
    Set(
    Set(
    Set(
    Set(c, Val(cx), "types", TypesOf(cx)),
        Val(cx) /\ IsA(cx.obj, "enum", "arr"), "enum_", get(cx.obj, "enum").a),
        Val(cx), "multiple_of", load_num(cx, "multipleOf")),
        Val(cx), "maximum", Inclusive(cx, "maximum", "exclusiveMaximum")),
        Val(cx), "exclusive_maximum", Exclusive(cx, "maximum", "exclusiveMaximum")),
        Val(cx), "minimum", Inclusive(cx, "minimum", "exclusiveMinimum")),
        Val(cx), "exclusive_minimum", Exclusive(cx, "minimum", "exclusiveMinimum"))

\* lines 388-389, 395-396, 401-402: the usize keywords of every draft
Sizes(cx) ==
    [k \in UsizeKeywords |->
        IF k \in {"maxContains", "minContains"} THEN <<>> ELSE load_usize(cx, k)]

\* lines 388-406
StringsArraysObjects(cx, c) ==
    IF ~Live(c) THEN c ELSE
    Set(
    Set(
    Set(
    Fail(
    Set(c, Val(cx), "usizes", Sizes(cx)),
        Val(cx) /\ IsA(cx.obj, "pattern", "str")
                /\ get(cx.obj, "pattern").s[1] \in InvalidRegexes,
        Err("Bug", cx.loc, get(cx.obj, "pattern").s[1])),
        Val(cx) /\ IsA(cx.obj, "pattern", "str"), "pattern", get(cx.obj, "pattern").s),
        Val(cx) /\ IsBool(cx, "uniqueItems"), "unique_items", get(cx.obj, "uniqueItems").b),
        Val(cx) /\ contains_key(cx.obj, "required"),
        "required", to_strings(get(cx.obj, "required")))

LowerValidation(cx, c) == StringsArraysObjects(cx, Numbers(cx, c))

\* ---- lines 409-428: format, bound only behind its gate and only when known
\* a gate that every document passes
GateCore(root) == "core"

FormatGate(root) ==
    IF root.draft < 2019 THEN "core"
    ELSE IF root.draft = 2019 THEN "format" ELSE "format-assertion"

\* any string under pname, found in a table or not
BoundAny(cx, pname, user, builtin) == IsA(cx.obj, pname, "str")

\* the name under pname when it is a string found in one of the two tables
Bound(cx, pname, user, builtin) ==
    IsA(cx.obj, pname, "str") /\ get(cx.obj, pname).s[1] \in user \cup builtin

LowerFormat(cx, c) ==
    IF ~Live(c) THEN c ELSE
    Set(c, /\ cx.assert_format \/ has_vocab(cx.root, FormatGate(cx.root))
           /\ Bound(cx, "format", cx.formats, FORMATS),
        "format", get(cx.obj, "format").s)

\* ---- lines 430-442: draft 6
LowerDraft6(cx, c) ==
    IF ~Live(c) THEN c ELSE
    Set(
    Prop(cx,
    Prop(cx, c, cx.root.draft >= 6 /\ App(cx), "contains", "contains"),
        cx.root.draft >= 6 /\ App(cx), "property_names", "propertyNames"),
        cx.root.draft >= 6 /\ Val(cx) /\ contains_key(cx.obj, "const"),
        "constant", <<get(cx.obj, "const")>>)

\* ---- lines 444-474: draft 7
D7(cx) == cx.root.draft >= 7

\* `then` read whether or not the object has an `if`, in any draft
ThenAlways(cx, c) == Prop(cx, c, App(cx), "then", "then")

\* lines 447-451: then and else are read only when `if` gave a handle
IfKeyword(cx, c) == Prop(cx, c, D7(cx) /\ App(cx), "if_", "if")
ThenKeyword(cx, c) == Prop(cx, c, D7(cx) /\ App(cx) /\ c.s.if_ # <<>>, "then", "then")
ElseKeyword(cx, c) == Prop(cx, c, D7(cx) /\ App(cx) /\ c.s.if_ # <<>>, "else_", "else")

\* lines 453-473
Content(cx, c) ==
    IF ~Live(c) THEN c ELSE
    Set(
    Set(c, D7(cx) /\ cx.assert_content
                  /\ Bound(cx, "contentEncoding", cx.decoders, DECODERS),
        "content_encoding", get(cx.obj, "contentEncoding").s),
        D7(cx) /\ cx.assert_content
               /\ Bound(cx, "contentMediaType", cx.media_types, MEDIA_TYPES),
        "content_media_type", get(cx.obj, "contentMediaType").s)

LowerDraft7(cx, c) == Content(cx, ElseKeyword(cx, ThenKeyword(cx, IfKeyword(cx, c))))

\* ---- lines 476-511: draft 2019-09
D2019(cx) == cx.root.draft >= 2019

\* lines 486-489
Contains2019(cx, c) ==
    Set(c, D2019(cx) /\ Val(cx) /\ c.s.contains # <<>>, "usizes",
        [c.s.usizes EXCEPT !["maxContains"] = load_usize(cx, "maxContains"),
                           !["minContains"] = load_usize(cx, "minContains")])

Unevaluated(cx) ==
    D2019(cx) /\ has_vocab(cx.root, IF cx.root.draft = 2019 THEN "applicator"
                                    ELSE "unevaluated")

LowerDraft2019(cx, c) ==
    IF ~Live(c) THEN c ELSE
    Prop(cx,
    Prop(cx,
    Map(cx,
    Set(
    Contains2019(cx,
    Set(
    Ref(cx, c, D2019(cx) /\ has_vocab(cx.root, "core"), "recursive_ref", "$recursiveRef"),
        D2019(cx) /\ has_vocab(cx.root, "core") /\ IsBool(cx, "$recursiveAnchor"),
        "recursive_anchor", get(cx.obj, "$recursiveAnchor").b)),
        D2019(cx) /\ Val(cx), "dependent_required",
        PropsOf(Members(cx.obj, "dependentRequired"))),
        D2019(cx) /\ App(cx), "dependent_schemas", "dependentSchemas"),
        Unevaluated(cx), "unevaluated_items", "unevaluatedItems"),
        Unevaluated(cx), "unevaluated_properties", "unevaluatedProperties")

\* ---- lines 513-526: draft 2020-12
D2020(cx) == cx.root.draft >= 2020

LowerDraft2020(cx, c) ==
    IF ~Live(c) THEN c ELSE
    Prop(cx,
    Arr(cx,
    Set(
    Ref(cx, c, D2020(cx) /\ has_vocab(cx.root, "core"), "dynamic_ref", "$dynamicRef"),
        D2020(cx) /\ has_vocab(cx.root, "core") /\ IsA(cx.obj, "$dynamicAnchor", "str"),
        "dynamic_anchor", get(cx.obj, "$dynamicAnchor").s),
        D2020(cx) /\ App(cx), "prefix_items", "prefixItems"),
        D2020(cx) /\ App(cx), "items2020", "items")

\* the context the closures of compile_one capture
Context(compiler, schemas, v, loc, root) ==
    [schemas |-> schemas, root |-> root, loc |-> loc,
     obj |-> IF v.t = "obj" THEN v.o ELSE <<>>,
     assert_format |-> compiler.assert_format,
     assert_content |-> compiler.assert_content,
     formats |-> compiler.formats,
     decoders |-> compiler.decoders,
     media_types |-> compiler.media_types]

\* lines 155-528 on a context
Lower(cx, v, queue) ==
    LowerDraft2020(cx,
    LowerDraft2019(cx,
    LowerDraft7(cx,
    LowerDraft6(cx,
    LowerFormat(cx,
    LowerValidation(cx,
    LowerApplicator(cx,
    LowerCore(cx,
    LowerHead(cx, v, queue)))))))))

\* Compiler::compile_one: the record of the value v at loc, or the error of
\* the first `?` that fires, and the queue with the locations it discovered
compile_one(compiler, schemas, v, loc, root, queue) ==
    Lower(Context(compiler, schemas, v, loc, root), v, queue)

\* ------------------------------------------------------- loader and roots
\* the scheme of a URL; the default loader registry serves "file" only
Scheme(u) == IF u \in {"ud"} THEN "http" ELSE "file"

\* Loader::load
load(loaders, u) ==
    IF Scheme(u) \notin loaders THEN [err |-> Err("UnsupportedUrl", <<u>>, "")]
    ELSE IF u \notin WorldUrls THEN [err |-> Err("LoadUrlError", <<u>>, "")]
    ELSE [err |-> <<>>, json |-> World(u)]

\* the validation of a document against the meta-schema of its draft, as far
\* as the exclusive bounds go: booleans in draft 4, numbers from draft 6 on
ExclusiveBounds == {"exclusiveMaximum", "exclusiveMinimum"}
MetaValid(json, version) ==
    \A n \in Nodes(json, <<>>) : \A k \in ExclusiveBounds :
        (n.v.t = "obj" /\ contains_key(n.v.o, k)) =>
            get(n.v.o, k).t = (IF version = 4 THEN "bool" ELSE "num")

\* the analysis of a document entering the root store: its draft is the one
\* its $schema names, the default draft when it has none
Analysed(u, json, version) ==
    IF version = 0 THEN [err |-> Err("InvalidMetaSchema", <<u>>, "")]
    ELSE IF ~MetaValid(json, version) THEN [err |-> Err("NotValid", <<u>>, "")]
    ELSE [err |-> <<>>, root |-> [url |-> u, json |-> json, draft |-> version]]

Analyse(u, json, default_draft) ==
    Analysed(u, json,
             IF json.t = "obj" /\ IsA(json.o, "$schema", "str")
             THEN DraftOfSchema(get(json.o, "$schema").s[1])
             ELSE default_draft)

AddRoot(roots, u, root) == [x \in DOMAIN roots \cup {u} |-> IF x = u THEN root ELSE roots[x]]

\* a document that was fetched or handed in enters the root store
Enter(c, u, a) ==
    IF a.err # <<>> THEN [err |-> a.err, roots |-> c.roots, added |-> FALSE]
    ELSE [err |-> <<>>, roots |-> AddRoot(c.roots, u, a.root), added |-> TRUE]

Loaded(c, u, l) ==
    IF l.err # <<>> THEN [err |-> l.err, roots |-> c.roots, added |-> FALSE]
    ELSE Enter(c, u, Analyse(u, l.json, c.default_draft))

\* Roots::or_load
or_load(c, u) ==
    IF u \in DOMAIN c.roots THEN [err |-> <<>>, roots |-> c.roots, added |-> FALSE]
    ELSE Loaded(c, u, load(c.loaders, u))

\* Roots::or_insert: true on first insert, false when the same document is
\* already there, Bug when another one is
or_insert(c, u, json) ==
    IF u \notin DOMAIN c.roots THEN Enter(c, u, Analyse(u, json, c.default_draft))
    ELSE IF c.roots[u].json = json
    THEN [err |-> <<>>, roots |-> c.roots, added |-> FALSE]
    ELSE [err |-> Err("Bug", <<u>>, ""), roots |-> c.roots, added |-> FALSE]

\* ---------------------------------------------------------------- state
VARIABLES
    compiler,   \* the Compiler: flags, registries, loader schemes, roots
    target,     \* the caller's arena (Schemas)
    pc,         \* "idle" between calls, "loop" at the head of compile's while
                \* loop, "lower" before compile_one on the front location
    queue,      \* compile's work queue
    sch_index,  \* compile's sch_index
    start,      \* the location the running or last compile was called with
    pre,        \* the arena when the running or last compile was called
    hist,       \* the finished compile calls: location, result, records added
    nconf       \* configuration calls so far

vars == <<compiler, target, pc, queue, sch_index, start, pre, hist, nconf>>

\* the locations compile is called with
StartLocs ==
    {<<u>> : u \in {"ua", "ub", "uc", "ue", "uf", "ug", "ui", "uj", "uk", "ul", "rel"}}
    \cup {<<"ua", "#">>, <<"uc", "#", "allOf", "1">>, <<"ue", "#", "nowhere">>,
          <<"ug", "#", "anc">>, <<"uf", "#", "not", "not">>}

\* Compiler::default() and Schemas::default()
Init ==
    /\ compiler = [assert_format |-> FALSE, assert_content |-> FALSE,
                   formats |-> {}, decoders |-> {}, media_types |-> {},
                   loaders |-> {"file"}, default_draft |-> 2020,
                   roots |-> [u \in {} |-> 0]]
    /\ target = EmptySchemas
    /\ pc = "idle"
    /\ queue = <<>>
    /\ sch_index = <<>>
    /\ start = <<>>
    /\ pre = EmptySchemas
    /\ hist = <<>>
    /\ nconf = 0

\* --------------------------------------------------------------- compile
Ok(index) == [status |-> "ok", index |-> index, err |-> <<>>]
Failed(err) == [status |-> "err", index |-> 0, err |-> err]

\* a call returns: its result joins the history
Returns(r, arena) ==
    hist' = Append(hist, [loc |-> start', res |-> r,
                          added |-> Len(arena.list) - Len(pre'.list),
                          looped |-> pc # "idle"])

\* what the last finished call returned, and whether any call has failed
calls == Len(hist) + (IF pc = "idle" THEN 0 ELSE 1)
res == hist[Len(hist)].res
failed == \E i \in 1..Len(hist) : hist[i].res.status = "err"

\* line 116 without the shortcut: the loop is entered whatever the queue holds
NeverCompiled(q) == FALSE

\* line 116: the queue is empty right after the initial enqueue
AlreadyCompiled(q) == q = <<>>

\* line 142 written as `sch_index = Some(index)`: the last index wins
LastIndex(cur, index) == <<index>>

\* line 142: sch_index.or(Some(index))
FirstIndex(cur, index) == IF cur = <<>> THEN <<index>> ELSE cur

\* lines 114-121 without the return for a location that is already compiled
EnterLoop(e) == pc' = "loop" /\ queue' = e.q /\ hist' = hist

\* lines 116-121 on the initial enqueue e
Enqueued(e) ==
    IF AlreadyCompiled(e.q)
    THEN /\ pc' = "idle"
         /\ queue' = <<>>
         /\ Returns(Ok(e.h), target)
    ELSE /\ pc' = "loop"
         /\ queue' = e.q
         /\ hist' = hist

\* lines 105-119: canonicalise, enqueue, and return at once when the
\* location is already in the arena
Compile(loc) ==
    /\ pc = "idle"
    /\ calls < MaxCalls
    /\ start' = loc
    /\ pre' = target
    /\ Enqueued(Schemas_enqueue(target, <<>>, Canon(loc)))
    /\ sch_index' = <<>>
    /\ UNCHANGED <<compiler, target, nconf>>

\* ---- one iteration of the loop, up to the value to lower (lines 123-135),
\* as its outcome o = [kind, err, roots, root, v]: kind "found" with the root
\* and the value at the front location, or the kind of the Err that leaves
\* compile
Stop(kind, err, roots) ==
    [kind |-> kind, err |-> err, roots |-> roots, root |-> <<>>, v |-> <<>>]

\* lines 130-135 with a missing value lowered as the schema `true`
LookedUpLenient(loc, roots, root, v) ==
    IF ~v.ok THEN Stop("pointer", Err("InvalidJsonPointer", loc, ""), roots)
    ELSE [kind |-> "found", err |-> <<>>, roots |-> roots, root |-> root,
          v |-> IF v.found THEN v.v ELSE JBool(TRUE)]

\* lines 130-135
LookedUp(loc, roots, root, v) ==
    IF ~v.ok THEN Stop("pointer", Err("InvalidJsonPointer", loc, ""), roots)
    ELSE IF ~v.found THEN Stop("notfound", Err("JsonPointerNotFound", loc, ""), roots)
    ELSE [kind |-> "found", err |-> <<>>, roots |-> roots, root |-> root, v |-> v.v]

\* lines 128-135
LoadedRoot(c, loc, u, l) ==
    IF l.err # <<>> THEN Stop("load", l.err, c.roots)
    ELSE LookedUp(loc, l.roots, l.roots[u], lookup_ptr(l.roots[u], split(loc).ptr))

\* an iteration that fetches the document again through the loader even when
\* the root store already holds it
IterationReload(c, q) ==
    IF ~UrlParses(split(Head(q)).url)
    THEN Stop("url", Err("LoadUrlError", split(Head(q)).url, ""), c.roots)
    ELSE LoadedRoot(c, Head(q), split(Head(q)).url[1],
                    Loaded(c, split(Head(q)).url[1],
                           load(c.loaders, split(Head(q)).url[1])))

\* lines 123-135
Iteration(c, q) ==
    IF ~UrlParses(split(Head(q)).url)
    THEN Stop("url", Err("LoadUrlError", split(Head(q)).url, ""), c.roots)
    ELSE LoadedRoot(c, Head(q), split(Head(q)).url[1],
                    or_load(c, split(Head(q)).url[1]))

\* the loop is at its head with a location to lower
Looping == pc = "loop" /\ queue # <<>>

\* an `Err` leaves compile: the queue is dropped with the call's frame
Abort(err, roots) ==
    /\ pc' = "idle"
    /\ queue' = <<>>
    /\ sch_index' = <<>>
    /\ compiler' = [compiler EXCEPT !.roots = roots]
    /\ UNCHANGED <<target, start, pre, nconf>>
    /\ Returns(Failed(err), target)

AbortOn(kind, o) == o.kind = kind /\ Abort(o.err, o.roots)

\* line 124: the URL of the location does not parse
StepUrlError == Looping /\ AbortOn("url", Iteration(compiler, queue))

\* line 128: the document cannot be loaded
StepLoadError == Looping /\ AbortOn("load", Iteration(compiler, queue))

\* lines 130-132: the fragment is not a JSON pointer
StepPointerError == Looping /\ AbortOn("pointer", Iteration(compiler, queue))

\* lines 133-135: the pointer leads to no value
StepNotFound == Looping /\ AbortOn("notfound", Iteration(compiler, queue))

\* lines 123-135: the document is there and the pointer leads to a value;
\* compile_one is next
StepFound ==
    /\ Looping
    /\ Iteration(compiler, queue).kind = "found"
    /\ pc' = "lower"
    /\ compiler' = [compiler EXCEPT !.roots = Iteration(compiler, queue).roots]
    /\ UNCHANGED <<target, queue, sch_index, start, pre, hist, nconf>>

\* lines 129-137: compile_one on the root and the value of the front location
FrontRoot == compiler.roots[split(Head(queue)).url[1]]
LowerFront ==
    compile_one(compiler, target, lookup_ptr(FrontRoot, split(Head(queue)).ptr).v,
                Head(queue), FrontRoot, queue)

\* line 137: the `?` on compile_one
LowerFailed(r) == r.err # <<>> /\ Abort(r.err, compiler.roots)

\* line 137: lowering fails
StepLowerError == pc = "lower" /\ LowerFailed(LowerFront)

\* lines 138-141 with pop_back for pop_front: the record is inserted under
\* the location at the back of the queue
PopBackInsert(schemas, q, sch) == Schemas_insert(schemas, q[Len(q)], sch)

\* lines 138-141 with the record written over the last slot of the arena
\* instead of appended
InsertOver(schemas, q, sch) ==
    IF schemas.list = <<>> THEN Schemas_insert(schemas, Head(q), sch)
    ELSE [list |-> [schemas.list EXCEPT ![Len(schemas.list)] = sch],
          map |-> [l \in DOMAIN schemas.map \cup {Head(q)} |->
                      IF l = Head(q) THEN Len(schemas.list) - 1 ELSE schemas.map[l]]]

\* lines 138-141: pop the front of the queue and insert the record under it
PopInsert(schemas, q, sch) == Schemas_insert(schemas, Head(q), sch)

\* a sequence back to front
RECURSIVE Reverse(_)
Reverse(q) == IF q = <<>> THEN <<>> ELSE Append(Reverse(Tail(q)), Head(q))

\* lines 138-142 with the rest of the queue turned round, so that the
\* location queued last is lowered next
InsertedLifo(r) ==
    /\ r.err = <<>>
    /\ r.q # <<>>
    /\ pc' = "loop"
    /\ target' = PopInsert(target, r.q, r.s)
    /\ queue' = Reverse(Tail(r.q))
    /\ sch_index' = FirstIndex(sch_index, Len(target.list))
    /\ UNCHANGED <<compiler, start, pre, hist, nconf>>

\* lines 138-142 on the record r.s and the queue r.q compile_one returned
Inserted(r) ==
    /\ r.err = <<>>
    /\ IF r.q = <<>>
       THEN Abort(Err("Bug", <<"queue must be non-empty">>, ""), compiler.roots)
       ELSE /\ pc' = "loop"
            /\ target' = PopInsert(target, r.q, r.s)
            /\ queue' = Tail(r.q)
            /\ sch_index' = FirstIndex(sch_index, Len(target.list))
            /\ UNCHANGED <<compiler, start, pre, hist, nconf>>

\* lines 137-142: lower the front location, pop it, insert its record
StepInsert == pc = "lower" /\ Inserted(LowerFront)

\* lines 122 and 144: the queue is empty, the loop ends
Return ==
    /\ pc = "loop" /\ queue = <<>>
    /\ pc' = "idle"
    /\ sch_index' = <<>>
    /\ UNCHANGED <<compiler, target, queue, start, pre, nconf>>
    /\ Returns(IF sch_index # <<>> THEN Ok(sch_index[1])
               ELSE Failed(Err("Bug", <<"schema_index must exist">>, "")), target)

\* --------------------------------------------------------- configuration
Configure(c) ==
    /\ pc = "idle"
    /\ nconf < MaxConfig
    /\ compiler' = c
    /\ nconf' = nconf + 1
    /\ UNCHANGED <<target, pc, queue, sch_index, start, pre, hist>>

\* lines 97-103
add_resource(url, json) ==
    Configure(IF UrlParses(url)
              THEN [compiler EXCEPT !.roots = or_insert(compiler, url[1], json).roots]
              ELSE compiler)

\* lines 81-83
register_url_loader(scheme) ==
    Configure([compiler EXCEPT !.loaders = @ \cup {scheme}])

\* lines 69-71
set_default_draft(d) == Configure([compiler EXCEPT !.default_draft = d])

\* lines 73-75
enable_format_assertions == Configure([compiler EXCEPT !.assert_format = TRUE])

\* lines 77-79
enable_content_assertions == Configure([compiler EXCEPT !.assert_content = TRUE])

\* lines 85-87
register_format(name) == Configure([compiler EXCEPT !.formats = @ \cup {name}])

\* lines 89-91
register_decoder(content_encoding) ==
    Configure([compiler EXCEPT !.decoders = @ \cup {content_encoding}])

\* lines 93-95
register_media_type(media_type) ==
    Configure([compiler EXCEPT !.media_types = @ \cup {media_type}])

Next ==
    \/ \E loc \in StartLocs : Compile(loc)
    \/ StepUrlError
    \/ StepLoadError
    \/ StepPointerError
    \/ StepNotFound
    \/ StepFound
    \/ StepLowerError
    \/ StepInsert
    \/ Return
    \/ \E url \in {<<"ud">>, <<"rel">>} : add_resource(url, DocD)
    \/ register_url_loader("http")
    \/ set_default_draft(4)
    \/ enable_format_assertions
    \/ enable_content_assertions
    \/ register_format("custom")
    \/ register_decoder("custom")
    \/ register_media_type("custom")

Spec == Init /\ [][Next]_vars

\* compile runs on the caller's thread: while a call is in progress its
\* next statement runs.  Every step of a call moves pc.
Running == pc # "idle" /\ pc' \in {"idle", "loop", "lower"}

FairSpec == Spec /\ WF_pc(Running)

\* ------------------------------------------------------------ properties
\* the handles of the arena, and the record a handle names
Slots == 0..(Len(target.list) - 1)
Rec(h) == target.list[h + 1]

Returned == pc = "idle" /\ hist # <<>>
Succeeded == Returned /\ res.status = "ok"
ErrKind(r) == IF r.err = <<>> THEN "" ELSE r.err[1].kind

\* C1: a compile call that returns success returns the handle the arena
\* associates with the canonical starting location (the location with '#'
\* appended when it has none), whether this call lowered the location or an
\* earlier call had.
C1_ReturnsHandleOfStart ==
    Succeeded =>
        /\ Canon(start) \in DOMAIN target.map
        /\ res.index = target.map[Canon(start)]

\* both cases of C1 in one run: a location without '#' lowered by the first
\* call and, in a second call, found already compiled
C1_Witness ==
    /\ Succeeded
    /\ Len(hist) = 2
    /\ hist[1].res.status = "ok" /\ hist[1].looped /\ hist[1].added > 1
    /\ ~hist[2].looped
    /\ HashPos(hist[1].loc) = 0
    /\ Canon(hist[1].loc) = Canon(hist[2].loc)

\* C2: after a compile call returns success, every handle stored in any
\* record of the arena names a populated record of the arena, never an index
\* past its end.
C2_StoredHandlesPopulated ==
    Succeeded => \A h \in Slots : StoredHandles(Rec(h)) \subseteq Slots

\* C3: when compile(arena, loc) returned success, a later compile(arena, loc)
\* returns the same handle, adds no record and lowers no location.
C3_SecondCompileIsShortcut ==
    \A i \in 1..Len(hist) : \A j \in (i + 1)..Len(hist) :
        (hist[i].res.status = "ok" /\ Canon(hist[j].loc) = Canon(hist[i].loc)) =>
            /\ hist[j].res = hist[i].res
            /\ hist[j].added = 0
            /\ ~hist[j].looped

C3_Witness ==
    /\ Returned
    /\ Len(hist) = 2
    /\ hist[1].res.status = "ok" /\ hist[1].looped /\ hist[1].added > 1
    /\ hist[2].loc = hist[1].loc

\* C4: after successful compile calls only, locations and handles of the
\* arena are in bijection: every registered location has a handle of the
\* arena, no two locations share one, every record is registered, and the
\* record at a location's handle carries that location.
C4_LocationsAndHandlesBijective ==
    (Returned /\ ~failed) =>
        /\ \A l \in DOMAIN target.map :
               /\ target.map[l] \in Slots
               /\ Rec(target.map[l]).location = l
               /\ Rec(target.map[l]).index = target.map[l]
        /\ \A l1, l2 \in DOMAIN target.map :
               target.map[l1] = target.map[l2] => l1 = l2
        /\ \A h \in Slots : \E l \in DOMAIN target.map : target.map[l] = h

C4_Witness ==
    /\ Returned /\ ~failed
    /\ Len(hist) = 2
    /\ hist[1].added > 1 /\ hist[2].added > 1

\* no two records of the arena are for the same location
LoweredOnce ==
    \A h1, h2 \in Slots : Rec(h1).location = Rec(h2).location => h1 = h2

\* C5: whatever the shape of the references between the loaded documents
\* (self-reference, mutual cycle, cycle across documents), a compile call
\* that entered its loop returns, and no location is lowered twice into the
\* arena.
C5_TerminatesAndLowersOnce ==
    /\ []LoweredOnce
    /\ (pc # "idle") ~> (pc = "idle")

\* the cycle across two documents and the mutual cycle inside one, compiled
C5_Witness ==
    /\ Succeeded
    /\ Len(hist) = 2
    /\ Canon(hist[1].loc) = <<"uc", "#">> /\ hist[1].res.status = "ok"
    /\ <<"ud", "#">> \in DOMAIN target.map
    /\ Canon(hist[2].loc) = <<"ub", "#">>
    /\ <<"ub", "#", "definitions", "b">> \in DOMAIN target.map

\* the location the $ref of the value at loc resolves to
RefTarget(root, loc) ==
    resolve(root,
            Join(base_url(root, split(loc).ptr),
                 get(Deref(root.json, split(loc).ptr).v.o, "$ref").s).url).loc

\* how often loc occurs in the queue q
Count(q, loc) == Cardinality({i \in 1..Len(q) : q[i] = loc})

\* the record s, lowered from the front of the queue, refers to location ref
\* by the handle the location already had
ReusesHandle(s, ref) ==
    /\ ref \in DOMAIN target.map => s.ref_ = <<target.map[ref]>>
    /\ (ref \notin DOMAIN target.map /\ Position(queue, ref) # 0) =>
           /\ s.ref_ = <<Len(target.list) + Position(queue, ref) - 1>>
           /\ Count(queue', ref) = Count(Tail(queue), ref)
    /\ ref = s.location => s.ref_ = <<s.index>>

\* C6: a $ref whose target is already compiled or already in the work queue
\* gets the handle of that location and the location is not queued again;
\* so the schema {"$ref": "#"} compiles, and the $ref handle of its record is
\* the record's own handle.
C6_CycleClosedByHandleIdentity ==
    [][ /\ (Len(target'.list) = Len(target.list) + 1
            /\ target'.list[Len(target'.list)].ref_ # <<>>) =>
               ReusesHandle(target'.list[Len(target'.list)],
                            RefTarget(compiler'.roots[Head(queue)[1]], Head(queue)))
        /\ (hist' # hist /\ Canon(start') = <<"ua", "#">>) =>
               /\ hist'[Len(hist')].res.status = "ok"
               /\ <<"ua", "#">> \in DOMAIN target'.map
               /\ target'.list[target'.map[<<"ua", "#">>] + 1].ref_
                      = <<target'.map[<<"ua", "#">>]>>
      ]_vars

\* {"$ref": "#"} compiled after another call had filled the arena, and a
\* mutual cycle closed in the same arena
C6_Witness ==
    /\ Succeeded
    /\ Len(hist) = 2
    /\ Canon(hist[1].loc) = <<"ub", "#">>
    /\ Canon(hist[2].loc) = <<"ua", "#">> /\ hist[2].looped
    /\ Rec(res.index).ref_ = <<res.index>>
    /\ res.index > 0

\* the handles that chains of stored handles reach from the handles hs
RECURSIVE Closure(_, _)
Closure(hs, n) ==
    IF n = 0 THEN hs
    ELSE Closure(hs \cup UNION {StoredHandles(Rec(h)) : h \in hs \cap Slots}, n - 1)

Reach(h) == Closure({h}, Len(target.list))

\* the handles a record stores for the subschemas below its own location
ChildHandles(s) == StoredHandles(s) \ ({s.resource} \cup Rng(s.ref_)
                       \cup Rng(s.recursive_ref) \cup Rng(s.dynamic_ref)
                       \cup Rng(Handles(s.dynamic_anchors)))

\* the record at h is complete: every handle it stores is a slot of the
\* arena that holds the record of the location the handle was reserved for
Complete(h) ==
    /\ h \in Slots
    /\ StoredHandles(Rec(h)) \subseteq Slots
    /\ \A c \in ChildHandles(Rec(h)) \cap Slots :
           IsPrefix(Rec(h).location, Rec(c).location)
    /\ \A r \in Rng(Rec(h).ref_) \cap Slots :
           Rec(r).location
               = RefTarget(compiler.roots[Rec(h).location[1]], Rec(h).location)

\* C7: once a compile call on the arena has returned an error, no later call
\* on that arena returns success with a handle from which stored handles
\* reach a slot that is missing or holds the record of another location.
C7_NoPartialCompileObserved ==
    (Succeeded /\ failed) => \A h \in Reach(res.index) : Complete(h)

\* C8: a compile call that returns an error returns no handle, lowers nothing
\* further, and leaves in the arena no record it produced.
C8_FailedCallLeavesNoRecord ==
    (Returned /\ res.status = "err") =>
        /\ queue = <<>>
        /\ hist[Len(hist)].added = 0
        /\ target = pre

PointerDangles(c, loc) ==
    /\ UrlParses(split(loc).url)
    /\ or_load(c, split(loc).url[1]).err = <<>>
    /\ IsJsonPointer(split(loc).ptr)
    /\ ~Deref(or_load(c, split(loc).url[1]).roots[split(loc).url[1]].json,
              split(loc).ptr).found

\* C10: when the location at the front of the work queue, the starting one
\* or one found while draining, has a pointer that leads to no value of its
\* loaded document, the call returns JsonPointerNotFound with that location
\* and no handle.
C10_DanglingPointerIsNotFound ==
    [][ (Looping /\ PointerDangles(compiler, Head(queue))) =>
            /\ pc' = "idle"
            /\ Len(hist') = Len(hist) + 1
            /\ hist'[Len(hist')].res
                   = Failed(Err("JsonPointerNotFound", Head(queue), ""))
      ]_vars

\* the dangling location was reached through a $ref, not given to compile
C10_Witness ==
    /\ Returned
    /\ ErrKind(res) = "JsonPointerNotFound"
    /\ res.err[1].loc = <<"ue", "#", "nowhere">>
    /\ Canon(start) = <<"ue", "#">>

\* C11: a document handed in by add_resource is in the root store, and a
\* compile call never fails with UnsupportedUrl or LoadUrlError for a URL the
\* root store holds, whether or not a loader is registered for its scheme:
\* the loader is not asked for it.
C11_SeededResourceBypassesLoader ==
    [][ (/\ Len(hist') = Len(hist) + 1
         /\ ErrKind(hist'[Len(hist')].res) \in {"UnsupportedUrl", "LoadUrlError"}) =>
            \/ Len(hist'[Len(hist')].res.err[1].loc) # 1
            \/ hist'[Len(hist')].res.err[1].loc[1] \notin DOMAIN compiler.roots
      ]_vars

\* a compile that went through "ud", handed in by add_resource, while no
\* loader serves the scheme of "ud"
C11_Witness ==
    /\ Succeeded
    /\ Canon(start) = <<"uc", "#">>
    /\ Scheme("ud") \notin compiler.loaders
    /\ "ud" \in DOMAIN compiler.roots
    /\ <<"ud", "#">> \in DOMAIN target.map

\* the same location with '#' appended, for a location given without one
WithHash(l1, l2) == HashPos(l1) = 0 /\ l2 = Append(l1, "#")

\* C12: a starting location without '#' is compiled as the same location with
\* '#' appended: every location the arena registers carries a '#', and of two
\* calls on the same arena for url and url + "#", in either order, the second
\* returns the handle the first returned and adds no record.
C12_MissingHashIsInjected ==
    /\ \A l \in DOMAIN target.map : HashPos(l) # 0
    /\ \A i \in 1..Len(hist) : \A j \in (i + 1)..Len(hist) :
           (/\ WithHash(hist[i].loc, hist[j].loc) \/ WithHash(hist[j].loc, hist[i].loc)
            /\ hist[i].res.status = "ok") =>
               /\ hist[j].res = hist[i].res
               /\ hist[j].added = 0

\* the location with '#' compiled first, the one without '#' second
C12_Witness ==
    /\ Returned
    /\ Len(hist) = 2
    /\ WithHash(hist[2].loc, hist[1].loc)
    /\ hist[1].res.status = "ok" /\ hist[1].added > 0
    /\ res.status = "ok"

\* the value at the front of the queue, in its loaded document
FrontValue == Deref(FrontRoot.json, split(Head(queue)).ptr).v

\* the step inserts the record lowered from the front of the queue
Inserts == pc = "lower" /\ Len(target'.list) = Len(target.list) + 1
NewRec == target'.list[Len(target'.list)]

\* the location of the resource root that encloses loc
ResourceRoot(root, loc) == resolve(root, <<base_url(root, split(loc).ptr)>>).loc

\* C13: in a document of draft 4, 6 or 7, an object with a string $ref is
\* lowered to a record whose only populated semantic field is the $ref
\* handle, whatever other keywords the object has, and lowering it queues no
\* location but the $ref target and the object's resource root.
C13_RefHidesSiblings ==
    [][ (/\ Inserts
         /\ FrontRoot.draft < 2019
         /\ FrontValue.t = "obj"
         /\ IsA(FrontValue.o, "$ref", "str")) =>
            /\ NewRec.ref_ # <<>>
            /\ [NewRec EXCEPT !.index = 0, !.resource = 0, !.ref_ = <<>>]
                   = [Schema_new(Head(queue)) EXCEPT !.draft_version = FrontRoot.draft]
            /\ Rng(queue') \ Rng(queue)
                   \subseteq {RefTarget(FrontRoot, Head(queue)),
                              ResourceRoot(FrontRoot, Head(queue))}
      ]_vars

\* the draft-7 object {"$ref": ..., "not": true} compiled: its record has the
\* $ref handle and no `not`, and the location of its `not` was never lowered
C13_Witness ==
    /\ Succeeded
    /\ <<"ub", "#", "definitions", "a">> \in DOMAIN target.map
    /\ Rec(target.map[<<"ub", "#", "definitions", "a">>]).draft_version = 7
    /\ Rec(target.map[<<"ub", "#", "definitions", "a">>]).ref_ # <<>>
    /\ Rec(target.map[<<"ub", "#", "definitions", "a">>]).not = <<>>
    /\ <<"ub", "#", "definitions", "a", "not">> \notin DOMAIN target.map

\* the document a record was lowered from
RootOf(s) == compiler.roots[s.location[1]]

\* the location is a resource root of its document: the document root or a
\* subschema with an $id
IsResourceRoot(s) == resource(RootOf(s), split(s.location).ptr) # {}

\* the record's resource handle is its own index exactly at a resource root,
\* and else names the compiled record of the enclosing resource root
ResourceLinked(h) ==
    /\ Rec(h).resource = h <=> IsResourceRoot(Rec(h))
    /\ ~IsResourceRoot(Rec(h)) =>
           /\ ResourceRoot(RootOf(Rec(h)), Rec(h).location) \in DOMAIN target.map
           /\ Rec(h).resource
                  = target.map[ResourceRoot(RootOf(Rec(h)), Rec(h).location)]

\* C14: after a compile call returned success, the resource handle of every
\* record of the arena equals the record's own index if and only if the
\* record's location is a resource root, and for every other record it is the
\* handle of the nearest enclosing resource root, which is compiled in the
\* arena.
C14_ResourceHandleNamesEnclosingRoot ==
    Succeeded => \A h \in Slots : ResourceLinked(h)

\* the number under key k of the object o, if there is one
NumOf(o, k) == IF IsA(o, k, "num") THEN <<get(o, k).n>> ELSE <<>>

\* the object at the front of the queue is lowered past its $ref
LowersKeywords ==
    /\ Inserts
    /\ FrontValue.t = "obj"
    /\ FrontRoot.draft >= 2019 \/ ~IsA(FrontValue.o, "$ref", "str")

\* the draft-4 reading of one bound: `true` under the exclusive keyword moves
\* the bound to the exclusive slot and clears the inclusive one
Draft4Bound(o, incl, excl, bound, exclusive) ==
    IF IsA(o, exclusive, "bool") /\ get(o, exclusive).b
    THEN incl = <<>> /\ excl = NumOf(o, bound)
    ELSE incl = NumOf(o, bound) /\ excl = <<>>

\* C15: a draft-4 object with exclusiveMaximum (exclusiveMinimum) true is
\* lowered with the value of maximum (minimum) in exclusive_maximum
\* (exclusive_minimum) and an empty inclusive slot; from draft 6 on the
\* inclusive slot is the number under maximum (minimum) and the exclusive
\* slot the number under exclusiveMaximum (exclusiveMinimum).
C15_ExclusiveBounds ==
    [][ LowersKeywords =>
            IF FrontRoot.draft = 4
            THEN /\ Draft4Bound(FrontValue.o, NewRec.maximum, NewRec.exclusive_maximum,
                                "maximum", "exclusiveMaximum")
                 /\ Draft4Bound(FrontValue.o, NewRec.minimum, NewRec.exclusive_minimum,
                                "minimum", "exclusiveMinimum")
            ELSE /\ NewRec.maximum = NumOf(FrontValue.o, "maximum")
                 /\ NewRec.exclusive_maximum = NumOf(FrontValue.o, "exclusiveMaximum")
                 /\ NewRec.minimum = NumOf(FrontValue.o, "minimum")
                 /\ NewRec.exclusive_minimum = NumOf(FrontValue.o, "exclusiveMinimum")
      ]_vars

\* {"maximum": 5, "exclusiveMaximum": true, "minimum": 1,
\* "exclusiveMinimum": false} of draft 4 and {"maximum": 5,
\* "exclusiveMaximum": 3} of draft 2020, both compiled
C15_Witness ==
    /\ Succeeded
    /\ <<"uj", "#">> \in DOMAIN target.map
    /\ Rec(target.map[<<"uj", "#">>]).draft_version = 4
    /\ Rec(target.map[<<"uj", "#">>]).maximum = <<>>
    /\ Rec(target.map[<<"uj", "#">>]).exclusive_maximum = <<5>>
    /\ Rec(target.map[<<"uj", "#">>]).minimum = <<1>>
    /\ Rec(target.map[<<"uj", "#">>]).exclusive_minimum = <<>>
    /\ <<"uk", "#">> \in DOMAIN target.map
    /\ Rec(target.map[<<"uk", "#">>]).draft_version = 2020
    /\ Rec(target.map[<<"uk", "#">>]).maximum = <<5>>
    /\ Rec(target.map[<<"uk", "#">>]).exclusive_maximum = <<3>>

\* the object o without its member k
RECURSIVE Without(_, _)
Without(o, k) ==
    IF o = <<>> THEN <<>>
    ELSE IF Head(o).k = k THEN Without(Tail(o), k)
    ELSE <<Head(o)>> \o Without(Tail(o), k)

\* the value at the front of the queue is an object whose format is a name
\* that neither the Compiler's table nor the built-in table has
UnknownFormat ==
    /\ pc = "lower"
    /\ FrontValue.t = "obj"
    /\ IsA(FrontValue.o, "format", "str")
    /\ get(FrontValue.o, "format").s[1] \notin compiler.formats \cup FORMATS

\* the lowering of the front of the queue, had the object no format keyword
LowerFrontWithoutFormat ==
    compile_one(compiler, target, JObj(Without(FrontValue.o, "format")),
                Head(queue), FrontRoot, queue)

\* C16: a format name that is in neither table never fails the lowering of
\* its object and leaves the record's format empty, with format assertions
\* enabled or not: the lowering fails exactly when it fails without the
\* format keyword, and otherwise yields the same record.
C16_UnknownFormatIsDropped ==
    UnknownFormat =>
        /\ LowerFront.err = LowerFrontWithoutFormat.err
        /\ LowerFront.err = <<>> =>
               /\ LowerFront.s.format = <<>>
               /\ LowerFront.s = LowerFrontWithoutFormat.s

\* {"format": "nope", ...} compiled with format assertions enabled, in a
\* draft where only that switch opens the format gate
C16_Witness ==
    /\ Succeeded
    /\ compiler.assert_format
    /\ Canon(start) = <<"uk", "#">>
    /\ Rec(res.index).draft_version = 2020
    /\ get(World("uk").o, "format").s[1] \notin compiler.formats \cup FORMATS
    /\ Rec(res.index).format = <<>>

\* the keys of the patternProperties of the object o that are no valid regex
BadKeys(o) ==
    IF IsA(o, "patternProperties", "obj")
    THEN SelectSeq(get(o, "patternProperties").o, LAMBDA m : m.k \in InvalidRegexes)
    ELSE <<>>

\* the object at the front of the queue is about to be lowered, has no $ref,
\* and has a patternProperties key that is no valid regex
LowersBadPattern ==
    /\ pc = "lower"
    /\ FrontValue.t = "obj"
    /\ ~contains_key(FrontValue.o, "$ref")
    /\ BadKeys(FrontValue.o) # <<>>

\* C17: when an object whose patternProperties has a key that is no valid
\* regex is lowered, the compile call returns, in that step, InvalidRegex with
\* that key and the location of the patternProperties, and no handle; the
\* object's record is not inserted.
C17_InvalidRegexFailsCompile ==
    [][ LowersBadPattern =>
            /\ pc' = "idle"
            /\ Len(hist') = Len(hist) + 1
            /\ hist'[Len(hist')].res
                   = Failed(Err("InvalidRegex", Append(Head(queue), "patternProperties"),
                                BadKeys(FrontValue.o)[1].k))
            /\ target' = target
      ]_vars

\* the call failed on the key "(" of uf#/not/patternProperties
C17_Witness ==
    /\ Returned
    /\ res.status = "err"
    /\ ErrKind(res) = "InvalidRegex"
    /\ res.err[1].loc = <<"uf", "#", "not", "patternProperties">>
    /\ res.err[1].arg = "("
    /\ Canon(start) = <<"uf", "#">>

\* C18: the work queue is first in, first out: the record inserted is the one
\* of the oldest queued location, the locations behind it keep their order,
\* and the locations discovered while lowering it, none of them queued or
\* lowered before, go behind all of them: a location discovered while
\* lowering a parent is lowered after the parent, breadth first.
C18_QueueIsFifo ==
    [][ /\ Inserts =>
               /\ NewRec.location = Head(queue)
               /\ IsPrefix(Tail(queue), queue')
               /\ \A i \in Len(queue)..Len(queue') :
                      queue'[i] \notin Rng(queue) \cup DOMAIN target'.map
        /\ (pc = "loop" /\ pc' = "lower") => queue' = queue
      ]_vars

\* ub compiled: its root first, then `not`, found at the root, then
\* definitions/a, found through `not`, then definitions/b, found through
\* definitions/a
C18_Witness ==
    /\ Succeeded
    /\ Canon(start) = <<"ub", "#">>
    /\ hist[Len(hist)].looped
    /\ target.map[<<"ub", "#">>] < target.map[<<"ub", "#", "not">>]
    /\ target.map[<<"ub", "#", "not">>] < target.map[<<"ub", "#", "definitions", "a">>]
    /\ target.map[<<"ub", "#", "definitions", "a">>]
           < target.map[<<"ub", "#", "definitions", "b">>]

\* C19: lowering a location only appends to the back of the work queue: the
\* queue it leaves starts with the queue it was given, front included, so the
\* location popped is the one that was peeked, and the record is inserted
\* under the location it was lowered from.
C19_LoweringOnlyAppends ==
    [][ /\ pc = "lower" => IsPrefix(queue, LowerFront.q)
        /\ Inserts =>
               /\ LowerFront.s.location = Head(queue)
               /\ NewRec = LowerFront.s
               /\ Head(queue) \in DOMAIN target'.map
               /\ target'.list[target'.map[Head(queue)] + 1] = NewRec
               /\ queue' = Tail(LowerFront.q)
      ]_vars

\* in the middle of a call: the first record is inserted, its lowering has
\* put several locations behind it, and the work goes on
C19_Witness ==
    /\ pc = "loop"
    /\ Len(target.list) = Len(pre.list) + 1
    /\ Len(queue) >= 3
    /\ Rec(Len(target.list) - 1).location = Canon(start)

\* the handles a record stores, each with the location it was handed out for
Under(s, key, hs) ==
    {<<s.location \o <<key, IdxTok(i - 1)>>, hs[i]>> : i \in 1..Len(hs)}
At(s, key, hs) == {<<Append(s.location, key), hs[i]>> : i \in 1..Len(hs)}
HandedOut(s) ==
    {<<s.location, s.index>>, <<ResourceRoot(RootOf(s), s.location), s.resource>>}
    \cup {<<RefTarget(RootOf(s), s.location), s.ref_[i]>> : i \in 1..Len(s.ref_)}
    \cup Under(s, "allOf", s.all_of) \cup Under(s, "anyOf", s.any_of)
    \cup Under(s, "oneOf", s.one_of)
    \cup At(s, "not", s.not) \cup At(s, "if", s.if_)
    \cup At(s, "then", s.then) \cup At(s, "else", s.else_)
    \cup {<<s.location \o <<"properties", escape(s.properties[i].k)>>,
             s.properties[i].h>> : i \in 1..Len(s.properties)}

AllHandedOut == UNION {HandedOut(Rec(h)) : h \in Slots}

\* C20: the handle handed out for a location, stored in the records that
\* refer to it and in the index of its own record, is the arena position at
\* which the location's record is written, and every enqueue of the location
\* returned that same handle.
C20_HandleIsInsertPosition ==
    /\ \A x \in AllHandedOut :
           x[1] \in DOMAIN target.map =>
               /\ target.map[x[1]] = x[2]
               /\ Rec(x[2]).location = x[1]
    /\ \A x, y \in AllHandedOut : x[1] = y[1] => x[2] = y[2]

\* C21: an object without `if`, or of a document of draft 4 or 6, is lowered
\* to a record with empty then and else, and its lowering queues neither
\* <loc>/then nor <loc>/else.
C21_ThenElseNeedIf ==
    [][ (/\ Inserts
         /\ FrontValue.t = "obj"
         /\ ~contains_key(FrontValue.o, "if") \/ FrontRoot.draft < 7) =>
            /\ NewRec.then = <<>>
            /\ NewRec.else_ = <<>>
            /\ \A l \in Rng(queue') \ Rng(queue) :
                   l \notin {Append(Head(queue), "then"), Append(Head(queue), "else")}
      ]_vars

\* {"then": true, "else": false, ...} without `if`, of draft 2020, compiled:
\* no then, no else, and their locations were never lowered
C21_Witness ==
    /\ Succeeded
    /\ Canon(start) = <<"uk", "#">>
    /\ contains_key(World("uk").o, "then") /\ contains_key(World("uk").o, "else")
    /\ ~contains_key(World("uk").o, "if")
    /\ Rec(res.index).draft_version = 2020
    /\ Rec(res.index).then = <<>> /\ Rec(res.index).else_ = <<>>
    /\ <<"uk", "#", "then">> \notin DOMAIN target.map
    /\ <<"uk", "#", "else">> \notin DOMAIN target.map

\* the vocabulary that gates format collection in a draft
GateOf(version) ==
    IF version >= 2020 THEN "format-assertion"
    ELSE IF version = 2019 THEN "format" ELSE "core"

\* the format name of the object o, when one of the two tables has it
KnownFormat(o) ==
    IF IsA(o, "format", "str") /\ get(o, "format").s[1] \in compiler.formats \cup FORMATS
    THEN <<get(o, "format").s>> ELSE <<>>

LoopBugs ==
    {Err("Bug", <<"queue must be non-empty">>, ""),
     Err("Bug", <<"schema_index must exist">>, "")}

\* C23: no compile call returns one of the two internal errors of the loop:
\* the loop is entered with a non-empty queue only, the queue still holds the
\* front location when its lowering succeeded, and when the queue has run
\* empty a first index is recorded.
C23_LoopBugsUnreachable ==
    /\ \A i \in 1..Len(hist) : hist[i].res.err \notin LoopBugs
    /\ pc = "lower" =>
           /\ queue # <<>>
           /\ LowerFront.err = <<>> => LowerFront.q # <<>>
    /\ (pc = "loop" /\ queue = <<>>) => sch_index # <<>>

\* the loop of a second call has run to its end: the queue is empty and the
\* index of the first record the call inserted is kept
C23_Witness ==
    /\ pc = "loop"
    /\ queue = <<>>
    /\ Len(hist) = 1
    /\ Len(target.list) > Len(pre.list) + 1
    /\ sch_index = <<Len(pre.list)>>
    /\ Len(pre.list) > 0

====
